---- MODULE Spec2Model ----
(***************************************************************************)
(* Model of server.js: the Firestore 'notification' listener and the FCM   *)
(* sender.  One pipeline runs per document change; every `await` of the    *)
(* source is a suspension point, and the code between two suspension       *)
(* points is one atomic action (single-threaded event loop).               *)
(*                                                                         *)
(* The forEach callback of line 32 contains `await` (lines 43, 60, 72); it *)
(* is modelled as the async function those awaits require, i.e. forEach    *)
(* starts every change's callback and does not wait for any of them.       *)
(***************************************************************************)
EXTENDS Integers, Sequences, FiniteSets, TLC

\* ------------------------------------------------------------------ bounds
NumEvents == 2        \* document changes delivered over the whole run
MaxBatch == 2         \* largest number of changes in one snapshot

Events == 1..NumEvents

\* ------------------------------------------------------ JavaScript values
Absent == "<undefined>"                 \* a field that is not in the document
Falsy(v) == v \in {Absent, ""}          \* what `!v` accepts for these fields
OrElse(v, d) == IF Falsy(v) THEN d ELSE v       \* v || d

\* --------------------------------------------------------------- stores
UIDs == {"u1", "u2", "u3", "u4", "u5"}
NoDoc == [exists |-> FALSE]

\* users/{uid}: u4 has no document
UsersStore ==
  [u \in UIDs |->
     CASE u = "u1" -> [exists |-> TRUE, fcmToken |-> "tok1", image_1 |-> "img1.png", link_1 |-> "lnk1"]
       [] u = "u2" -> [exists |-> TRUE, fcmToken |-> "tok2", image_1 |-> Absent,     link_1 |-> "lnk2"]
       [] u = "u3" -> [exists |-> TRUE, fcmToken |-> Absent, image_1 |-> "img3.png", link_1 |-> "lnk3"]
       [] u = "u4" -> NoDoc
       [] u = "u5" -> [exists |-> TRUE, fcmToken |-> "tok5", image_1 |-> "img5.png", link_1 |-> Absent]]

SIDs == {"s1", "s2", "s3"}

\* users/{uid}/subjects/{subjectId}: s1 is named, s2 has an empty name, s3 is missing
SubjectsStore ==
  [k \in UIDs \X SIDs |->
     CASE k[2] = "s1" /\ k[1] # "u4" -> [exists |-> TRUE, name |-> "Maths"]
       [] k[2] = "s2" /\ k[1] # "u4" -> [exists |-> TRUE, name |-> ""]
       [] OTHER -> NoDoc]

\* ---------------------------------------------------------------- dates
Digit == <<"0", "1", "2", "3", "4", "5", "6", "7", "8", "9">>
MonthShort == <<"Jan", "Feb", "Mar", "Apr", "May", "Jun",
                "Jul", "Aug", "Sep", "Oct", "Nov", "Dec">>
Pad2(n) == Digit[(n \div 10) + 1] \o Digit[(n % 10) + 1]
Year4(n) == Pad2(n \div 100) \o Pad2(n % 100)

\* toLocaleDateString('en-IN', {day: '2-digit', month: 'short', year: 'numeric'})
FormatDate(dt) == Pad2(dt.day) \o " " \o MonthShort[dt.month] \o " " \o Year4(dt.year)

Day(d, m, y) == [day |-> d, month |-> m, year |-> y]
Timestamp(d) == [kind |-> "timestamp", date |-> d]   \* a Firestore Timestamp
NoDateTime == [kind |-> "undefined"]                 \* the record has no dateTime
NotATimestamp == [kind |-> "string"]                 \* dateTime stored as text: no toDate()
Mar05 == Timestamp(Day(5, 3, 2024))
Clock == {Day(2, 11, 2026)}                          \* values `new Date()` can return

\* --------------------------------------------------------- change records
Rec(t, u, s, st, dt) ==
  [type |-> t, uid |-> u, subjectId |-> s, status |-> st, dateTime |-> dt]

\* the document changes the feed can deliver
Changes ==
  { Rec("added",    "u1",   "s1",   "Present", Mar05),
    Rec("added",    "u5",   "s2",   "Absent",  NoDateTime),
    Rec("added",    "u1",   "s3",   "Present", NotATimestamp),
    Rec("added",    "u5",   "s3",   "Present", Mar05),
    Rec("added",    "u2",   "s1",   "Present", Mar05),
    Rec("added",    "u3",   "s1",   "Present", Mar05),
    Rec("added",    "u4",   "s1",   "Present", Mar05),
    Rec("added",    Absent, "s1",   "Present", Mar05),
    Rec("added",    "u1",   "",     "Present", Mar05),
    Rec("added",    "u1",   "s1",   Absent,    Mar05),
    Rec("modified", "u1",   "s1",   "Present", Mar05),
    Rec("removed",  "u1",   "s1",   "Present", Mar05) }

NoChange == Rec("none", Absent, Absent, Absent, NoDateTime)

VARIABLES
  alive,          \* the process runs (no uncaught exception, no unhandled rejection)
  users,          \* collection users
  subjects,       \* collections users/{uid}/subjects
  delivered,      \* number of changes the listener has been called with
  batch,          \* batch[e]: the snapshot that carried change e (0: not yet)
  change,         \* change[e]: the document change e
  pc,             \* pc[e]: where the callback of change e stands
  fcmToken, imageUrl, clickLink, subjectName, formattedDate,  \* its locals
  tokens,         \* tokens[e]: access token returned to e by authorize() (0: none)
  issued,         \* number of access tokens the identity provider has issued
  userReads, subjectReads, exchanges,  \* external calls made for e
  posted,         \* posted[e]: the POSTs written to the gateway for e
  statusCode      \* statusCode[e]: res.statusCode of the gateway's answer (0: none)

vars == <<alive, users, subjects, delivered, batch, change, pc,
          fcmToken, imageUrl, clickLink, subjectName, formattedDate,
          tokens, issued, userReads, subjectReads, exchanges, posted, statusCode>>

stores == <<users, subjects>>
locals == <<fcmToken, imageUrl, clickLink, subjectName, formattedDate>>
calls == <<userReads, subjectReads, exchanges, posted>>

Init ==
  /\ alive = TRUE
  /\ users = UsersStore
  /\ subjects = SubjectsStore
  /\ delivered = 0
  /\ batch = [e \in Events |-> 0]
  /\ change = [e \in Events |-> NoChange]
  /\ pc = [e \in Events |-> "pending"]
  /\ fcmToken = [e \in Events |-> Absent]
  /\ imageUrl = [e \in Events |-> Absent]
  /\ clickLink = [e \in Events |-> Absent]
  /\ subjectName = [e \in Events |-> Absent]
  /\ formattedDate = [e \in Events |-> Absent]
  /\ tokens = [e \in Events |-> 0]
  /\ issued = 0
  /\ userReads = [e \in Events |-> 0]
  /\ subjectReads = [e \in Events |-> 0]
  /\ exchanges = [e \in Events |-> 0]
  /\ posted = [e \in Events |-> <<>>]
  /\ statusCode = [e \in Events |-> 0]

\* ------------------------------------------------------- control points
Suspended == {"awaitUser", "awaitSubject", "awaitAuthorize", "awaitResponse"}
SilentSkip == {"ignored", "malformed"}           \* lines 33 and 37: return, no log
LookupMiss == {"userNotFound", "noFcmToken"}     \* lines 45 and 55
RuleSkip == {"noImage"}                          \* line 104
ProcessingFailure == {"errorProcessing", "errorSending"}   \* lines 75 and 164
DeliverySuccess == {"sent"}                      \* line 149
DeliveryFailure == {"fcmError", "requestFailed"} \* lines 151 and 157
Terminal == SilentSkip \cup LookupMiss \cup RuleSkip \cup ProcessingFailure
              \cup DeliverySuccess \cup DeliveryFailure

\* ------------------------------------------------- onSnapshot, lines 31-43
IsAdded_NotRemoved(c) == c.type # "removed"

IsAdded(c) == c.type = "added"                                   \* line 33

HasRequiredFields_NoStatus(c) == ~Falsy(c.uid) /\ ~Falsy(c.subjectId)

HasRequiredFields(c) ==                                          \* line 37
  ~Falsy(c.uid) /\ ~Falsy(c.subjectId) /\ ~Falsy(c.status)

\* where the callback of change c stands when forEach moves on to the next change
Start(c) ==
  IF ~IsAdded(c) THEN "ignored"
  ELSE IF ~HasRequiredFields(c) THEN "malformed"
  ELSE "awaitUser"                  \* line 43: users/{uid}.get() is in flight

\* a loop over the changes that a skipped change leaves with `return`: the
\* changes after it in the snapshot are not looked at
OnSnapshot_StopsAtSkip(n, cs) ==
  /\ alive
  /\ delivered + n <= NumEvents
  /\ LET new == (delivered + 1)..(delivered + n)
         c(e) == cs[e - delivered]
         nth == 1 + Cardinality({batch[e] : e \in Events} \ {0})
         cut(e) == \E k \in new : k < e /\ Start(c(k)) \in SilentSkip
         at(e) == IF cut(e) THEN "ignored" ELSE Start(c(e))
     IN /\ delivered' = delivered + n
        /\ batch' = [e \in Events |-> IF e \in new THEN nth ELSE batch[e]]
        /\ change' = [e \in Events |-> IF e \in new THEN c(e) ELSE change[e]]
        /\ pc' = [e \in Events |-> IF e \in new THEN at(e) ELSE pc[e]]
        /\ userReads' = [e \in Events |->
                           IF e \in new /\ at(e) = "awaitUser" THEN 1 ELSE userReads[e]]
  /\ UNCHANGED <<alive, stores, locals, tokens, issued, subjectReads, exchanges,
                 posted, statusCode>>

\* The listener is called with a snapshot of n changes; forEach runs the
\* synchronous part of every callback, one after the other, in this one step.
OnSnapshot(n, cs) ==
  /\ alive
  /\ delivered + n <= NumEvents
  /\ LET new == (delivered + 1)..(delivered + n)
         c(e) == cs[e - delivered]
         nth == 1 + Cardinality({batch[e] : e \in Events} \ {0})
     IN /\ delivered' = delivered + n
        /\ batch' = [e \in Events |-> IF e \in new THEN nth ELSE batch[e]]
        /\ change' = [e \in Events |-> IF e \in new THEN c(e) ELSE change[e]]
        /\ pc' = [e \in Events |-> IF e \in new THEN Start(c(e)) ELSE pc[e]]
        /\ userReads' = [e \in Events |->
                           IF e \in new /\ Start(c(e)) = "awaitUser" THEN 1 ELSE userReads[e]]
  /\ UNCHANGED <<alive, stores, locals, tokens, issued, subjectReads, exchanges,
                 posted, statusCode>>

\* ------------------------------------------------------------ exceptions
\* sendVisibleNotification without its try: the rejection of authorize() escapes
CatchOf_NoInnerTry(site) ==
  CASE site \in {"users.get", "subjects.get", "toDate"} -> "catch74"
    [] site = "authorize" -> "none"
    [] site = "request" -> "req.on.error"

\* a request without its 'error' listener: the error event is thrown
CatchOf_NoErrorListener(site) ==
  CASE site \in {"users.get", "subjects.get", "toDate"} -> "catch74"
    [] site = "authorize" -> "catch163"
    [] site = "request" -> "none"

\* the handler that receives an exception raised at a site of the pipeline
CatchOf(site) ==
  CASE site \in {"users.get", "subjects.get", "toDate"} -> "catch74"   \* try of line 41
    [] site = "authorize" -> "catch163"                                 \* try of line 85
    [] site = "request" -> "req.on.error"                               \* line 156

\* a catch at line 163 that logs and goes on to the request
LoggedAs_FallThrough(handler) ==
  CASE handler = "catch74" -> "errorProcessing"
    [] handler = "catch163" -> "awaitResponse"
    [] handler = "req.on.error" -> "requestFailed"
    [] OTHER -> "uncaught"

LoggedAs(handler) ==
  CASE handler = "catch74" -> "errorProcessing"
    [] handler = "catch163" -> "errorSending"
    [] handler = "req.on.error" -> "requestFailed"
    [] OTHER -> "uncaught"

\* an exception with no handler ends the process
Throw(e, site) ==
  /\ pc' = [pc EXCEPT ![e] = LoggedAs(CatchOf(site))]
  /\ alive' = (LoggedAs(CatchOf(site)) # "uncaught")

\* callbacks run one after the other, each awaited before the next resumes
Runnable_Serial(e, at) ==
  alive /\ pc[e] = at /\ \A o \in 1..(e - 1) : pc[o] \notin Suspended

\* a suspended callback resumes as soon as its promise settles: nothing else
\* (no lock, no queue, no other callback) holds it back
Runnable(e, at) == alive /\ pc[e] = at

\* ------------------------------------------ users/{uid}.get(), lines 43-60
UsersGet(uid) == IF uid \in DOMAIN users THEN users[uid] ELSE NoDoc

HasToken_Unchecked(tok) == TRUE

HasToken(tok) == ~Falsy(tok)                                     \* line 54

UserLookupReturns(e) ==
  /\ Runnable(e, "awaitUser")
  /\ LET userDoc == UsersGet(change[e].uid)
     IN IF ~userDoc.exists
        THEN /\ pc' = [pc EXCEPT ![e] = "userNotFound"]
             /\ UNCHANGED <<locals, subjectReads>>
        ELSE /\ fcmToken' = [fcmToken EXCEPT ![e] = userDoc.fcmToken]
             /\ imageUrl' = [imageUrl EXCEPT ![e] = OrElse(userDoc.image_1, "")]
             /\ clickLink' = [clickLink EXCEPT ![e] = OrElse(userDoc.link_1, "")]
             /\ UNCHANGED <<subjectName, formattedDate>>
             /\ IF ~HasToken(userDoc.fcmToken)
                THEN /\ pc' = [pc EXCEPT ![e] = "noFcmToken"]
                     /\ UNCHANGED subjectReads
                ELSE /\ pc' = [pc EXCEPT ![e] = "awaitSubject"]      \* line 60
                     /\ subjectReads' = [subjectReads EXCEPT ![e] = @ + 1]
  /\ UNCHANGED <<alive, stores, delivered, batch, change, tokens, issued,
                 userReads, exchanges, posted, statusCode>>

UserLookupFails(e) ==
  /\ Runnable(e, "awaitUser")
  /\ Throw(e, "users.get")
  /\ UNCHANGED <<stores, delivered, batch, change, locals, tokens, issued,
                 calls, statusCode>>

\* ------------------------- subjects/{subjectId}.get(), lines 60-72, 85-95
SubjectsGet(uid, sid) ==
  IF <<uid, sid>> \in DOMAIN subjects THEN subjects[<<uid, sid>>] ELSE NoDoc

\* the name of an existing subject document taken as it is
SubjectNameOf_NoFallback(subjectDoc, sid) ==
  IF subjectDoc.exists THEN subjectDoc.name ELSE sid

\* line 61: subjectDoc.exists ? subjectDoc.data().name || subjectId : subjectId
SubjectNameOf(subjectDoc, sid) ==
  IF subjectDoc.exists THEN OrElse(subjectDoc.name, sid) ELSE sid

\* line 64: data.dateTime ? data.dateTime.toDate() : new Date()
ToDateThrows(dt) == dt.kind = "string"
DateOf(dt, now) == IF dt.kind = "undefined" THEN now ELSE dt.date

\* The subject lookup returns; the callback formats the date and calls
\* sendVisibleNotification, which runs up to `await jwtClient.authorize()`.
SubjectLookupReturns(e, now) ==
  /\ Runnable(e, "awaitSubject")
  /\ subjectName' = [subjectName EXCEPT ![e] =
        SubjectNameOf(SubjectsGet(change[e].uid, change[e].subjectId), change[e].subjectId)]
  /\ IF ToDateThrows(change[e].dateTime)
     THEN /\ Throw(e, "toDate")
          /\ UNCHANGED <<formattedDate, exchanges>>
     ELSE /\ formattedDate' = [formattedDate EXCEPT ![e] =
                                 FormatDate(DateOf(change[e].dateTime, now))]
          /\ exchanges' = [exchanges EXCEPT ![e] = @ + 1]            \* line 95
          /\ pc' = [pc EXCEPT ![e] = "awaitAuthorize"]
          /\ UNCHANGED alive
  /\ UNCHANGED <<stores, delivered, batch, change, fcmToken, imageUrl, clickLink,
                 tokens, issued, userReads, subjectReads, posted, statusCode>>

SubjectLookupFails(e) ==
  /\ Runnable(e, "awaitSubject")
  /\ Throw(e, "subjects.get")
  /\ UNCHANGED <<stores, delivered, batch, change, locals, tokens, issued,
                 calls, statusCode>>

\* ------------------------------------ sendVisibleNotification, lines 96-161
notificationTitle == "Attendance Update"                          \* line 99

notificationBody(status, subject, date) ==                        \* line 100
  "Marked " \o status \o " for " \o subject \o " on " \o date

ImageAvailable_Unchecked(img) == TRUE

ImageAvailable(img) == ~Falsy(img)                                \* line 103

\* image and link taken from each other's argument
Message_ImageLinkSwapped(tok, status, subject, date, img, link) ==
  [token |-> tok,
   data |-> [title |-> notificationTitle,
             body |-> notificationBody(status, subject, date),
             image |-> OrElse(link, ""),
             link |-> img],
   android |-> [priority |-> "high"]]

\* a message with a notification payload and default priority
Message_WithNotification(tok, status, subject, date, img, link) ==
  [token |-> tok,
   notification |-> [title |-> notificationTitle,
                     body |-> notificationBody(status, subject, date)],
   data |-> [image |-> img, link |-> OrElse(link, "")],
   android |-> [priority |-> "normal"]]

\* the callback's locals kept in module-level variables: the values used are
\* those of the change whose recipient was looked up last
Message_SharedLocals(tok, status, subject, date, img, link) ==
  LET last == CHOOSE o \in Events :
                /\ fcmToken[o] # Absent
                /\ \A x \in Events : fcmToken[x] # Absent => x <= o
  IN [token |-> fcmToken[last],
      data |-> [title |-> notificationTitle,
                body |-> notificationBody(status, subject, date),
                image |-> imageUrl[last],
                link |-> OrElse(clickLink[last], "")],
      android |-> [priority |-> "high"]]

\* lines 109-122
Message(tok, status, subject, date, img, link) ==
  [token |-> tok,
   data |-> [title |-> notificationTitle,
             body |-> notificationBody(status, subject, date),
             image |-> img,
             link |-> OrElse(link, "")],
   android |-> [priority |-> "high"]]

\* a token kept from the first exchange and reused by later calls
Bearer_Cached(access_token) == IF issued > 0 THEN 1 ELSE access_token

\* line 134: the bearer of the request is the token this call was given
Bearer(access_token) == access_token

\* authorize() resolves with a token never issued before; the function checks
\* the image, builds the message and writes the request (req.end, line 161).
AuthorizeReturns(e) ==
  /\ Runnable(e, "awaitAuthorize")
  /\ issued' = issued + 1
  /\ tokens' = [tokens EXCEPT ![e] = issued + 1]
  /\ IF ~ImageAvailable(imageUrl[e])
     THEN /\ pc' = [pc EXCEPT ![e] = "noImage"]
          /\ UNCHANGED posted
     ELSE /\ posted' = [posted EXCEPT ![e] = Append(@,
               [authorization |-> Bearer(issued + 1),
                message |-> Message(fcmToken[e], change[e].status, subjectName[e],
                                    formattedDate[e], imageUrl[e], clickLink[e])])]
          /\ pc' = [pc EXCEPT ![e] = "awaitResponse"]
  /\ UNCHANGED <<alive, stores, delivered, batch, change, locals,
                 userReads, subjectReads, exchanges, statusCode>>

AuthorizeFails(e) ==
  /\ Runnable(e, "awaitAuthorize")
  /\ Throw(e, "authorize")
  /\ UNCHANGED <<stores, delivered, batch, change, locals, tokens, issued,
                 calls, statusCode>>

\* ------------------------------------------- the response, lines 140-158
StatusCodes == {200, 204, 404, 500}

IsSuccess_Any2xx(code) == code \div 100 = 2

IsSuccess(code) == code = 200                                     \* line 148

\* a response callback that writes the outcome into the recipient's document
GatewayResponds_RecordsOutcome(e, code) ==
  /\ Runnable(e, "awaitResponse")
  /\ statusCode' = [statusCode EXCEPT ![e] = code]
  /\ pc' = [pc EXCEPT ![e] = IF IsSuccess(code) THEN "sent" ELSE "fcmError"]
  /\ users' = [users EXCEPT ![change[e].uid].link_1 =
                  IF IsSuccess(code) THEN "delivered" ELSE "failed"]
  /\ UNCHANGED <<alive, subjects, delivered, batch, change, locals, tokens, issued, calls>>

GatewayResponds(e, code) ==
  /\ Runnable(e, "awaitResponse")
  /\ statusCode' = [statusCode EXCEPT ![e] = code]
  /\ pc' = [pc EXCEPT ![e] = IF IsSuccess(code) THEN "sent" ELSE "fcmError"]
  /\ UNCHANGED <<alive, stores, delivered, batch, change, locals, tokens, issued, calls>>

RequestFails(e) ==
  /\ Runnable(e, "awaitResponse")
  /\ Throw(e, "request")
  /\ UNCHANGED <<stores, delivered, batch, change, locals, tokens, issued,
                 calls, statusCode>>

\* ------------------------------------------------------- specification
Step(e) ==
  \/ UserLookupReturns(e)
  \/ UserLookupFails(e)
  \/ \E now \in Clock : SubjectLookupReturns(e, now)
  \/ SubjectLookupFails(e)
  \/ AuthorizeReturns(e)
  \/ AuthorizeFails(e)
  \/ \E code \in StatusCodes : GatewayResponds(e, code)
  \/ RequestFails(e)

Snapshot ==
  \E n \in 1..MaxBatch :
    /\ delivered + n <= NumEvents
    /\ \E cs \in [1..n -> Changes] : OnSnapshot(n, cs)

Next == Snapshot \/ \E e \in Events : Step(e)

Spec == Init /\ [][Next]_vars

\* the scheduling assumption of the liveness properties: every external call
\* made for a change returns (a result or an error) and its callback then runs
FairSpec == Spec /\ \A e \in Events : WF_vars(Step(e))

\* =================================================================== claims
\* what the record and the stores say about change e, read off the data alone
Received(e) == pc[e] # "pending"
Added(e) == change[e].type = "added"
RecordComplete(e) ==
  /\ change[e].uid \notin {Absent, ""}
  /\ change[e].subjectId \notin {Absent, ""}
  /\ change[e].status \notin {Absent, ""}
ProfileExists(e) == change[e].uid \in UIDs /\ UsersStore[change[e].uid].exists
ProfileOf(e) == UsersStore[change[e].uid]
ProfileHasToken(e) == ProfileExists(e) /\ ProfileOf(e).fcmToken \notin {Absent, ""}
ProfileHasImage(e) == ProfileExists(e) /\ ProfileOf(e).image_1 \notin {Absent, ""}
Deliverable(e) ==
  Received(e) /\ Added(e) /\ RecordComplete(e) /\ ProfileHasToken(e) /\ ProfileHasImage(e)
NoCalls(e) ==
  userReads[e] = 0 /\ subjectReads[e] = 0 /\ exchanges[e] = 0 /\ posted[e] = <<>>

\* C1: a POST has been issued for a change only if its record has non-empty
\* uid, subjectId and status and the recipient's profile has a non-empty
\* fcmToken and a non-empty image_1; a change lacking any of the five has no
\* POST, in every state up to and including its final one.
C1_PostOnlyWhenComplete ==
  \A e \in Events :
    /\ posted[e] # <<>> => Deliverable(e)
    /\ (Received(e) /\ ~Deliverable(e)) => Len(posted[e]) = 0

C1_Witness ==
  \E e, o \in Events :
    /\ posted[e] # <<>> /\ Deliverable(e)
    /\ pc[o] = "noImage" /\ ProfileHasToken(o) /\ ~ProfileHasImage(o) /\ posted[o] = <<>>

\* C3: a change whose record lacks uid, subjectId or status causes no
\* recipient lookup, no subject lookup, no token exchange and no POST.
C3_MalformedDoesNothing ==
  \A e \in Events :
    (Received(e) /\ ~RecordComplete(e)) => (NoCalls(e) /\ pc[e] \in SilentSkip)

C3_Witness ==
  \E e \in Events :
    /\ Added(e) /\ change[e].status = Absent /\ change[e].uid = "u1"
    /\ pc[e] = "malformed" /\ NoCalls(e)

\* C4: a change whose recipient has no profile, or a profile without push
\* token, stops right after the recipient lookup: no subject lookup, no token
\* exchange and no POST, whatever image_1, link_1 and the record hold.
C4_NoTokenStopsAfterLookup ==
  \A e \in Events :
    (Received(e) /\ Added(e) /\ RecordComplete(e) /\ ~ProfileHasToken(e)) =>
      /\ pc[e] \in {"awaitUser", "userNotFound", "noFcmToken", "errorProcessing"}
      /\ userReads[e] = 1 /\ subjectReads[e] = 0 /\ exchanges[e] = 0 /\ posted[e] = <<>>

C4_Witness ==
  \E e, o \in Events :
    /\ pc[e] = "userNotFound" /\ ~ProfileExists(e)
    /\ pc[o] = "noFcmToken" /\ ProfileHasImage(o) /\ subjectReads[o] = 0

\* C2 as stated: every deliverable change ends with exactly one POST.
C2_ExactlyOnePost ==
  \A e \in Events : (Deliverable(e) /\ pc[e] \in Terminal) => Len(posted[e]) = 1

Requested == {"awaitResponse"} \cup DeliverySuccess \cup DeliveryFailure

\* C2 amended: a deliverable change never has more than one POST; it has
\* exactly one, carrying the recipient's fcmToken and image_1, from the moment
\* its token exchange succeeds, and none if a lookup, the date conversion or the
\* token exchange fails; with every external call returning, it ends in one of
\* these two ways.
C2_OnePostUnlessFailed ==
  /\ [](\A e \in Events : Deliverable(e) =>
          /\ Len(posted[e]) <= 1
          /\ pc[e] \in Requested <=> Len(posted[e]) = 1
          /\ pc[e] \in Terminal => pc[e] \in Requested \cup ProcessingFailure
          /\ \A i \in DOMAIN posted[e] :
               /\ posted[e][i].message.token = ProfileOf(e).fcmToken
               /\ posted[e][i].message.data.image = ProfileOf(e).image_1)
  /\ \A e \in Events : [](Deliverable(e) => <>(pc[e] \in Requested \cup ProcessingFailure))

C2_Witness ==
  \E e, o \in Events :
    /\ Deliverable(e) /\ pc[e] = "sent" /\ Len(posted[e]) = 1
    /\ Deliverable(o) /\ pc[o] = "errorSending" /\ Len(posted[o]) = 0

\* C5: whatever one change's pipeline does, and in particular if it stays for
\* ever at a lookup, at the token exchange or at the gateway call, every other
\* change, of the same snapshot or of a later one, is started and reaches a
\* final outcome as long as its own external calls return.
C5_StalledPipelineBlocksNobody ==
  \A s \in Events :
    (WF_vars(Snapshot) /\ \A e \in Events \ {s} : WF_vars(Step(e)))
      => \A e \in Events \ {s} : <>(pc[e] \in Terminal)

C5_Witness ==
  \E s, e \in Events :
    /\ s < e /\ batch[s] = batch[e]
    /\ pc[s] = "awaitUser" /\ pc[e] = "sent"

\* C6: no failure of a pipeline (a lookup that rejects, a dateTime that cannot
\* be converted, a token exchange that fails, a non-200 answer, a request
\* error) leaves it: the process stays alive, no exception is left without a
\* handler, and the listener still accepts the snapshots that remain.
C6_FailuresStayInside ==
  /\ alive
  /\ \A e \in Events : pc[e] \in {"pending"} \cup Suspended \cup Terminal
  /\ delivered < NumEvents => ENABLED Snapshot
  /\ \A e \in Events : pc[e] \in Suspended => ENABLED Step(e)

C6_Witness ==
  \E f, e \in Events :
    /\ batch[f] < batch[e]
    /\ pc[f] = "fcmError" /\ statusCode[f] = 404
    /\ pc[e] = "sent" /\ tokens[f] < tokens[e]
    /\ alive

Answered == DeliverySuccess \cup DeliveryFailure

\* C7: whatever the gateway answers, a change has at most one POST and at most
\* one token exchange, and an answered change is never touched again; only
\* status 200 is a success, every other status and every request error is a
\* delivery failure.
C7_NoRetryOnly200 ==
  /\ [](\A e \in Events :
          /\ Len(posted[e]) <= 1
          /\ exchanges[e] <= 1
          /\ pc[e] \in DeliverySuccess <=> statusCode[e] = 200
          /\ statusCode[e] \notin {0, 200} => pc[e] = "fcmError"
          /\ pc[e] = "requestFailed" => statusCode[e] = 0 /\ Len(posted[e]) = 1)
  /\ [][\A e \in Events : pc[e] \in Answered =>
          /\ pc'[e] = pc[e]
          /\ posted'[e] = posted[e]
          /\ exchanges'[e] = exchanges[e]]_vars

C7_Witness ==
  \E e, o \in Events :
    /\ pc[e] = "fcmError" /\ statusCode[e] = 204 /\ Len(posted[e]) = 1 /\ exchanges[e] = 1
    /\ pc[o] = "requestFailed" /\ Len(posted[o]) = 1 /\ exchanges[o] = 1

\* the token exchange of change e was made and has failed
ExchangeFailed(e) == exchanges[e] >= 1 /\ tokens[e] = 0 /\ pc[e] # "awaitAuthorize"

\* everything the model holds about change o
StateOf(o) ==
  <<pc[o], fcmToken[o], imageUrl[o], clickLink[o], subjectName[o], formattedDate[o],
    tokens[o], userReads[o], subjectReads[o], exchanges[o], posted[o], statusCode[o]>>

\* C8: when the token exchange of a change fails, its pipeline ends there
\* (logged at line 164) with no POST; the exchange is not made again, and the
\* step changes nothing of any other change nor of the process.
C8_FailedExchangeAborts ==
  /\ [](\A e \in Events : ExchangeFailed(e) =>
          /\ pc[e] = "errorSending"
          /\ posted[e] = <<>>
          /\ exchanges[e] = 1
          /\ alive)
  /\ [][\A e \in Events : (~ExchangeFailed(e) /\ ExchangeFailed(e)') =>
          \A o \in Events \ {e} : StateOf(o)' = StateOf(o)]_vars
  /\ [][\A e \in Events : ExchangeFailed(e) => StateOf(e)' = StateOf(e)]_vars

C8_Witness ==
  \E e, o \in Events :
    /\ ExchangeFailed(e) /\ pc[e] = "errorSending"
    /\ pc[o] = "sent" /\ tokens[o] > 0

\* C9 as stated: the image check comes before the token exchange, so a change
\* whose recipient has no image never has a token exchange.
C9_NoExchangeWithoutImage ==
  \A e \in Events :
    (Received(e) /\ Added(e) /\ RecordComplete(e) /\ ProfileHasToken(e) /\ ~ProfileHasImage(e))
      => exchanges[e] = 0

\* C10: every POST of a change follows a token exchange made for that change
\* and carries the token that exchange returned; no POST carries a token
\* returned to another change, and no two changes are given the same token.
C10_OwnFreshToken ==
  \A e \in Events :
    /\ \A i \in DOMAIN posted[e] :
         /\ exchanges[e] >= 1
         /\ tokens[e] # 0
         /\ posted[e][i].authorization = tokens[e]
         /\ \A o \in Events \ {e} : posted[e][i].authorization # tokens[o]
    /\ tokens[e] # 0 => exchanges[e] = 1 /\ tokens[e] \in 1..issued

C10_Witness ==
  \E e, o \in Events :
    /\ e # o /\ posted[e] # <<>> /\ posted[o] # <<>>
    /\ posted[e][1].authorization = tokens[e]
    /\ posted[o][1].authorization = tokens[o]

\* the subject name the stores prescribe for change e
SubjectKey(e) == <<change[e].uid, change[e].subjectId>>
SubjectNamed(e) ==
  /\ SubjectKey(e) \in DOMAIN SubjectsStore
  /\ SubjectsStore[SubjectKey(e)].exists
  /\ SubjectsStore[SubjectKey(e)].name \notin {Absent, ""}
ExpectedSubject(e) ==
  IF SubjectNamed(e) THEN SubjectsStore[SubjectKey(e)].name ELSE change[e].subjectId
DateTexts == {"05 Mar 2024", "02 Nov 2026"}

\* C11: in every POST the body names the subject by the subject document's
\* name when that document exists with a non-empty name, and by the raw
\* subjectId otherwise (no document, or no name); a missing or unnamed
\* subject never ends the pipeline: once the lookup has returned, the change
\* goes on to the token exchange unless its dateTime cannot be converted.
C11_SubjectNameOrId ==
  \A e \in Events :
    /\ subjectName[e] # Absent => subjectName[e] = ExpectedSubject(e)
    /\ exchanges[e] >= 1 => subjectName[e] = ExpectedSubject(e)
    /\ (subjectName[e] # Absent /\ change[e].dateTime.kind # "string") => exchanges[e] = 1
    /\ \A i \in DOMAIN posted[e] :
         \E d \in DateTexts :
           posted[e][i].message.data.body =
             "Marked " \o change[e].status \o " for " \o ExpectedSubject(e) \o " on " \o d

C11_Witness ==
  \E e, o \in Events :
    /\ change[e].subjectId = "s3" /\ ~SubjectNamed(e) /\ posted[e] # <<>>
    /\ posted[e][1].message.data.body = "Marked Present for s3 on 05 Mar 2024"
    /\ change[o].subjectId = "s2" /\ ~SubjectNamed(o) /\ posted[o] # <<>>
    /\ posted[o][1].message.data.body = "Marked Absent for s2 on 02 Nov 2026"

\* the message the record and the stores prescribe for change e, for date text d
ExpectedMessage(e, d) ==
  [token |-> ProfileOf(e).fcmToken,
   data |-> [title |-> "Attendance Update",
             body |-> "Marked " \o change[e].status \o " for " \o ExpectedSubject(e)
                        \o " on " \o d,
             image |-> ProfileOf(e).image_1,
             link |-> IF ProfileOf(e).link_1 \in {Absent, ""} THEN "" ELSE ProfileOf(e).link_1],
   android |-> [priority |-> "high"]]

ExpectedDate(e) ==
  IF change[e].dateTime.kind = "timestamp" THEN "05 Mar 2024" ELSE "02 Nov 2026"

\* C12: every POST body is a data-only message (token, data, android and
\* nothing else) built from the data of its own change: token is the
\* recipient's fcmToken, title "Attendance Update", body "Marked {status} for
\* {subject} on {date}", image the recipient's image_1, link the recipient's
\* link_1 or "" when there is none, android priority "high".
C12_MessageFromOwnData ==
  \A e \in Events : \A i \in DOMAIN posted[e] :
    /\ DOMAIN posted[e][i].message = {"token", "data", "android"}
    /\ DOMAIN posted[e][i].message.data = {"title", "body", "image", "link"}
    /\ posted[e][i].message = ExpectedMessage(e, ExpectedDate(e))

C12_Witness ==
  \E e, o \in Events :
    /\ change[e].uid = "u5" /\ posted[e] # <<>>
    /\ posted[e][1].message.data.link = "" /\ posted[e][1].message.token = "tok5"
    /\ change[o].uid = "u1" /\ posted[o] # <<>>
    /\ posted[o][1].message.data.link = "lnk1" /\ posted[o][1].message.token = "tok1"
    /\ posted[o][1].message.data.body = "Marked Present for Maths on 05 Mar 2024"

\* C13: a change of a kind other than "added" (modified, removed) starts no
\* pipeline: no recipient lookup, no subject lookup, no token exchange, no POST.
C13_OnlyAddedStarts ==
  \A e \in Events :
    /\ (Received(e) /\ change[e].type # "added") => (NoCalls(e) /\ pc[e] = "ignored")
    /\ ~NoCalls(e) => change[e].type = "added"

C13_Witness ==
  \E e, o \in Events :
    /\ change[e].type = "modified" /\ pc[e] = "ignored" /\ NoCalls(e)
    /\ change[o].type = "removed" /\ pc[o] = "ignored" /\ NoCalls(o)

\* C14: the pipeline only reads: at every step, on success and on every skip
\* or failure path, the users and subjects collections stay what they were
\* and a received notification record is never altered; no outcome is written
\* to any of them.
C14_StoresReadOnly ==
  /\ [](users = UsersStore /\ subjects = SubjectsStore)
  /\ [][users' = users /\ subjects' = subjects]_vars
  /\ [][\A e \in Events : Received(e) => change'[e] = change[e]]_vars

C14_Witness ==
  \E e, o \in Events :
    /\ pc[e] = "sent" /\ pc[o] \in DeliveryFailure
    /\ users = UsersStore /\ subjects = SubjectsStore
    /\ change[e] \in Changes /\ change[o] \in Changes

\* C15 as stated: a change whose recipient has a push token but no image ends
\* in the business-rule skip and never in the authentication failure, also
\* when the identity provider rejects the token exchange (the recipient and
\* subject lookups and the date conversion having succeeded).
C15_ImagelessEndsInRuleSkip ==
  \A e \in Events :
    (Received(e) /\ Added(e) /\ RecordComplete(e) /\ ProfileHasToken(e) /\ ~ProfileHasImage(e)) =>
      /\ pc[e] # "errorSending"
      /\ (formattedDate[e] # Absent /\ pc[e] \in Terminal) => pc[e] \in RuleSkip

\* the final outcomes the record and the recipient's document leave open to
\* change e; which one is taken depends only on the answers to its own calls
ExpectedOutcomes(e) ==
  IF ~Added(e) THEN {"ignored"}
  ELSE IF ~RecordComplete(e) THEN {"malformed"}
  ELSE IF ~ProfileExists(e) THEN {"userNotFound", "errorProcessing"}
  ELSE IF ~ProfileHasToken(e) THEN {"noFcmToken", "errorProcessing"}
  ELSE IF change[e].dateTime.kind = "string" THEN {"errorProcessing"}
  ELSE IF ~ProfileHasImage(e) THEN {"noImage", "errorSending", "errorProcessing"}
  ELSE {"sent", "fcmError", "requestFailed", "errorSending", "errorProcessing"}

\* C16: pipelines share no mutable state.  The outcome of a change (its skip
\* or failure kind, or the one POST with its token, title, body, image and
\* link) is a function of its own record, of the documents looked up for it
\* and of the answers to its own calls, so it is the same whatever other
\* changes are in flight and however their steps interleave; and a step of
\* one pipeline leaves the state of every other change as it was.
C16_OutcomeIsOwn ==
  /\ [](\A e \in Events :
          /\ pc[e] \in Terminal => pc[e] \in ExpectedOutcomes(e)
          /\ pc[e] \in Requested =>
               /\ Len(posted[e]) = 1
               /\ posted[e][1].message = ExpectedMessage(e, ExpectedDate(e))
          /\ pc[e] \notin Requested => posted[e] = <<>>)
  /\ [][delivered' = delivered =>
          \E e \in Events : \A o \in Events \ {e} : StateOf(o)' = StateOf(o)]_vars
  /\ [][\A o \in Events : Received(o) /\ delivered' # delivered
          => StateOf(o)' = StateOf(o)]_vars

C16_Witness ==
  \E e, o \in Events :
    /\ e < o /\ tokens[o] # 0 /\ tokens[o] < tokens[e]
    /\ change[e].uid = "u1" /\ change[o].uid = "u5"
    /\ pc[e] = "sent" /\ pc[o] = "sent"
    /\ posted[e][1].message.token = "tok1" /\ posted[o][1].message.token = "tok5"

\* C17: within one snapshot, a skipped change (kind not "added", or record
\* without uid, subjectId or status) ends only its own processing: every
\* other change of that snapshot that is added and complete, before or after
\* the skipped one, has its pipeline started (its recipient lookup is made).
C17_SkipEndsOnlyThatChange ==
  \A e, o \in Events :
    (/\ e # o /\ batch[e] # 0 /\ batch[e] = batch[o]
     /\ pc[e] \in SilentSkip
     /\ Added(o) /\ RecordComplete(o))
      => (userReads[o] = 1 /\ pc[o] \notin SilentSkip \cup {"pending"})

C17_Witness ==
  \E e, o \in Events :
    /\ e < o /\ batch[e] = batch[o] /\ batch[e] # 0
    /\ pc[e] = "malformed" /\ change[e].uid = Absent
    /\ Added(o) /\ RecordComplete(o) /\ userReads[o] = 1 /\ pc[o] = "sent"

\* the kinds of final outcome
OutcomeKinds ==
  {SilentSkip, LookupMiss, RuleSkip, ProcessingFailure, DeliverySuccess, DeliveryFailure}

\* how far a callback has come
Rank(at) ==
  CASE at = "pending" -> 0
    [] at = "awaitUser" -> 1
    [] at = "awaitSubject" -> 2
    [] at = "awaitAuthorize" -> 3
    [] at = "awaitResponse" -> 4
    [] OTHER -> 5

\* C18: provided every external call returns a result or an error, every
\* started pipeline reaches a final outcome of exactly one kind (silent skip,
\* lookup miss, business-rule skip, authentication/processing failure,
\* delivery success, delivery failure) and keeps it; every step moves the
\* callback forward, so none loops and none stays pending for ever.
C18_EveryPipelineEnds ==
  /\ \A e \in Events : [](Received(e) => <>(pc[e] \in Terminal))
  /\ [](\A e \in Events :
          /\ pc[e] \in {"pending"} \cup Suspended \cup Terminal
          /\ pc[e] \in Terminal => Cardinality({K \in OutcomeKinds : pc[e] \in K}) = 1)
  /\ [][\A e \in Events :
          /\ pc[e] \in Terminal => pc'[e] = pc[e]
          /\ pc'[e] # pc[e] => Rank(pc'[e]) > Rank(pc[e])]_vars

C18_Witness ==
  \E e, o \in Events :
    /\ pc[e] = "requestFailed" /\ exchanges[e] = 1 /\ Len(posted[e]) = 1
    /\ pc[o] = "noImage" /\ exchanges[o] = 1 /\ posted[o] = <<>>

====
